---- MODULE Spec2Model ----
(***************************************************************************)
(* Model of src/src/validate.ts: the token-list validator.                 *)
(*                                                                         *)
(* One run of the script is: the module-level load of the candidate and    *)
(* of the previous document (lines 42-61), the synchronous checks of       *)
(* validateTokenList up to the first `await` (lines 64-196), and then one  *)
(* HTTP HEAD probe per token, awaited one after the other (lines 198-210). *)
(* Every failing check prints a message and calls process.exit(1).         *)
(*                                                                         *)
(* Strings that the code lower-cases (address, name, symbol) are sequences *)
(* of character codes, so that toLowerCase is computed and not assumed.    *)
(* Strings that are only compared exactly are TLA+ strings.  A timestamp   *)
(* is the millisecond value of `new Date(timestamp)`.                      *)
(***************************************************************************)
EXTENDS Integers, Sequences, FiniteSets, TLC

VARIABLES
    tokenList,          \* the candidate document (line 42)
    previousTokenList,  \* the previous document, or Null (lines 45-61)
    clock,              \* the wall clock `new Date()` reads
    pc,                 \* "loaded" | "awaiting" | "exited"
    now,                \* the local `now` of the run (line 91), -1 before it is read
    syncResult,         \* outcome of the synchronous checks (lines 64-196)
    i,                  \* index of the token whose probe is awaited (line 199)
    probes,             \* number of axios.head calls issued by this run
    inflight,           \* what the probed host will do with the pending request
    output,             \* the last console message of the run
    exitCode,           \* the exit code of the process, -1 while it runs
    prior,              \* the previous run on the same documents, or Null
    history             \* the documents merged so far, oldest first

vars == <<tokenList, previousTokenList, clock, pc, now, syncResult, i, probes,
          inflight, output, exitCode, prior, history>>

----------------------------------------------------------------------------
(* Bounds of the model *)

MaxTokens == 2   \* longest token array of a candidate
MaxTime == 2     \* timestamps and the clock range over 0..MaxTime
MaxVer == 2      \* version components range over 0..MaxVer

----------------------------------------------------------------------------
(* Constants of the program *)

ChainApertum == 89898
ChainSecond == 2786

ALLOWED_CHAIN_IDS == <<ChainApertum, ChainSecond>>
REQUIRED_KEYWORDS == <<"apertum", "tokens", "trusted">>
REQUIRED_LIST_LOGO_URI == "https://assets.apertum.io/assets/apertum-logo.svg"
REQUIRED_LIST_NAME == "Apertum Token List"

Null == [null |-> TRUE]

(* Console messages, one per exit of validateTokenList *)
MSG_SCHEMA == "Schema validation failed"
MSG_NAME == "List name cannot be changed"
MSG_KEYWORDS == "Keywords cannot be changed"
MSG_LOGO == "List logoURI cannot be changed"
MSG_FUTURE == "Timestamp cannot be in the future"
MSG_OLDER == "Timestamp cannot be older than previous version"
MSG_VERSION == "Version must be incremented"
MSG_DUP_ADDRESS == "Duplicate token address found"
MSG_DUP_NAME == "Duplicate token name found"
MSG_DUP_SYMBOL == "Duplicate token symbol found"
MSG_DUP_LOGO == "Duplicate logoURI found"
MSG_MODIFIED == "Existing token has been modified"
MSG_CHAIN == "Invalid chain ID"
MSG_LOGO_STATUS == "Invalid logo URI"
MSG_LOGO_FAILED == "Failed to validate logo URI"
MSG_PASSED == "Token list validation passed successfully!"
SYNC_OK == "synchronous checks passed"
NONE == "none"

----------------------------------------------------------------------------
(* Pure helpers *)

(* String.prototype.toLowerCase on ASCII: 'A'..'Z' (65..90) -> 'a'..'z' *)
toLowerCase(s) ==
    [k \in DOMAIN s |-> IF s[k] \in 65..90 THEN s[k] + 32 ELSE s[k]]

(* Array.prototype.includes *)
includes(arr, x) == \E k \in DOMAIN arr : arr[k] = x

(* The template string `${chainId}-${text}`.  chainId prints as decimal     *)
(* digits, so the first "-" ends it and the pair determines the string.     *)
MapKey(chainId, text) == <<chainId, text>>

(* The loop "if (map.has(key)) exit; map.set(key, ...)" over keys[1..n]     *)
(* exits exactly when some key equals an earlier one.                       *)
HasDuplicateKey(keys) ==
    \E k \in DOMAIN keys : \E j \in 1..(k - 1) : keys[j] = keys[k]

----------------------------------------------------------------------------
(* The checks of validateTokenList, in the order of the source *)

(* line 65: ajv's verdict on the candidate.  The schema is read from       *)
(* tokenlist.schema.json at line 38; its verdict is a field of the input.  *)
SchemaInvalid(doc) == ~doc.schemaValid

(* line 72 *)
NameChanged(doc) == doc.name # REQUIRED_LIST_NAME

(* line 78 *)
KeywordsChanged(doc) ==
    ~(\A k \in DOMAIN REQUIRED_KEYWORDS : includes(doc.keywords, REQUIRED_KEYWORDS[k]))

(* line 84 *)
LogoChanged(doc) == doc.logoURI # REQUIRED_LIST_LOGO_URI

(* line 93 *)
TimestampInFuture(currentTimestamp, nowValue) == currentTimestamp > nowValue

(* Mutations of line 100: `<=` for `<`, and `now` for the previous timestamp *)
TimestampOlder_OrEqual(currentTimestamp, previousTimestamp) ==
    currentTimestamp <= previousTimestamp

TimestampOlder_ThanNow(currentTimestamp, previousTimestamp) ==
    currentTimestamp < clock

(* line 100 *)
TimestampOlder(currentTimestamp, previousTimestamp) ==
    currentTimestamp < previousTimestamp

(* Mutation of line 114: `<` for `<=`, so that an equal version passes *)
VersionNotIncremented_EqualPasses(newVersion, prevVersion) ==
    \/ newVersion.major < prevVersion.major
    \/ (newVersion.major = prevVersion.major /\ newVersion.minor < prevVersion.minor)
    \/ (newVersion.major = prevVersion.major /\ newVersion.minor = prevVersion.minor
        /\ newVersion.patch < prevVersion.patch)

(* lines 112-114 *)
VersionNotIncremented(newVersion, prevVersion) ==
    \/ newVersion.major < prevVersion.major
    \/ (newVersion.major = prevVersion.major /\ newVersion.minor < prevVersion.minor)
    \/ (newVersion.major = prevVersion.major /\ newVersion.minor = prevVersion.minor
        /\ newVersion.patch <= prevVersion.patch)

(* line 123, 168, 174 *)
AddressKey(token) == MapKey(token.chainId, toLowerCase(token.address))

(* Mutation of line 134: the name is not lower-cased *)
NameKey_CaseSensitive(token) == MapKey(token.chainId, token.name)

(* line 134 *)
NameKey(token) == MapKey(token.chainId, toLowerCase(token.name))

(* line 145 *)
SymbolKey(token) == MapKey(token.chainId, toLowerCase(token.symbol))

(* line 156: the logoURI is not lower-cased *)
LogoKey(token) == MapKey(token.chainId, token.logoURI)

(* lines 121-129 *)
DuplicateAddress(tokens) ==
    HasDuplicateKey([k \in DOMAIN tokens |-> AddressKey(tokens[k])])

(* lines 132-140 *)
DuplicateName(tokens) ==
    HasDuplicateKey([k \in DOMAIN tokens |-> NameKey(tokens[k])])

(* lines 143-151 *)
DuplicateSymbol(tokens) ==
    HasDuplicateKey([k \in DOMAIN tokens |-> SymbolKey(tokens[k])])

(* lines 154-162 *)
DuplicateLogoURI(tokens) ==
    HasDuplicateKey([k \in DOMAIN tokens |-> LogoKey(tokens[k])])

(* lines 166-171 and 175: new Map(pairs).get(key).  A later pair with the  *)
(* same key overwrites an earlier one; a missing key gives undefined.      *)
PreviousTokensGet(prevTokens, key) ==
    LET hits == {k \in DOMAIN prevTokens : AddressKey(prevTokens[k]) = key}
    IN  IF hits = {} THEN Null
        ELSE prevTokens[CHOOSE k \in hits : \A j \in hits : j <= k]

(* Mutation of lines 179-182: the decimals are not compared *)
TokenDiffers_NoDecimals(token, previousToken) ==
    \/ token.name # previousToken.name
    \/ token.symbol # previousToken.symbol
    \/ token.logoURI # previousToken.logoURI

(* lines 179-182 *)
TokenDiffers(token, previousToken) ==
    \/ token.name # previousToken.name
    \/ token.symbol # previousToken.symbol
    \/ token.decimals # previousToken.decimals
    \/ token.logoURI # previousToken.logoURI

(* lines 173-187 *)
ExistingTokenModified(tokens, prevTokens) ==
    \E k \in DOMAIN tokens :
        LET previousToken == PreviousTokensGet(prevTokens, AddressKey(tokens[k]))
        IN  previousToken # Null /\ TokenDiffers(tokens[k], previousToken)

(* lines 191-196 *)
InvalidChainId(tokens) ==
    \E k \in DOMAIN tokens : ~includes(ALLOWED_CHAIN_IDS, tokens[k].chainId)

(* Mutation of lines 64-196: the chain-ID loop placed before the           *)
(* uniqueness loops                                                        *)
SyncChecks_ChainFirst(cand, prev, nowValue) ==
    IF SchemaInvalid(cand) THEN MSG_SCHEMA
    ELSE IF NameChanged(cand) THEN MSG_NAME
    ELSE IF KeywordsChanged(cand) THEN MSG_KEYWORDS
    ELSE IF LogoChanged(cand) THEN MSG_LOGO
    ELSE IF TimestampInFuture(cand.timestamp, nowValue) THEN MSG_FUTURE
    ELSE IF prev # Null /\ TimestampOlder(cand.timestamp, prev.timestamp) THEN MSG_OLDER
    ELSE IF prev # Null /\ VersionNotIncremented(cand.version, prev.version) THEN MSG_VERSION
    ELSE IF InvalidChainId(cand.tokens) THEN MSG_CHAIN
    ELSE IF DuplicateAddress(cand.tokens) THEN MSG_DUP_ADDRESS
    ELSE IF DuplicateName(cand.tokens) THEN MSG_DUP_NAME
    ELSE IF DuplicateSymbol(cand.tokens) THEN MSG_DUP_SYMBOL
    ELSE IF DuplicateLogoURI(cand.tokens) THEN MSG_DUP_LOGO
    ELSE IF prev # Null /\ ExistingTokenModified(cand.tokens, prev.tokens) THEN MSG_MODIFIED
    ELSE SYNC_OK

(* Mutation of lines 98, 107 and 165: with no previous document the        *)
(* candidate is compared with itself                                       *)
SyncChecks_SelfBase(cand, prev, nowValue) ==
    LET base == IF prev = Null THEN cand ELSE prev
    IN  IF SchemaInvalid(cand) THEN MSG_SCHEMA
        ELSE IF NameChanged(cand) THEN MSG_NAME
        ELSE IF KeywordsChanged(cand) THEN MSG_KEYWORDS
        ELSE IF LogoChanged(cand) THEN MSG_LOGO
        ELSE IF TimestampInFuture(cand.timestamp, nowValue) THEN MSG_FUTURE
        ELSE IF TimestampOlder(cand.timestamp, base.timestamp) THEN MSG_OLDER
        ELSE IF VersionNotIncremented(cand.version, base.version) THEN MSG_VERSION
        ELSE IF DuplicateAddress(cand.tokens) THEN MSG_DUP_ADDRESS
        ELSE IF DuplicateName(cand.tokens) THEN MSG_DUP_NAME
        ELSE IF DuplicateSymbol(cand.tokens) THEN MSG_DUP_SYMBOL
        ELSE IF DuplicateLogoURI(cand.tokens) THEN MSG_DUP_LOGO
        ELSE IF ExistingTokenModified(cand.tokens, base.tokens) THEN MSG_MODIFIED
        ELSE IF InvalidChainId(cand.tokens) THEN MSG_CHAIN
        ELSE SYNC_OK

(* lines 64-196: everything validateTokenList does before its first await. *)
(* The result is the message of the first check that exits, or SYNC_OK.    *)
SyncChecks(cand, prev, nowValue) ==
    IF SchemaInvalid(cand) THEN MSG_SCHEMA
    ELSE IF NameChanged(cand) THEN MSG_NAME
    ELSE IF KeywordsChanged(cand) THEN MSG_KEYWORDS
    ELSE IF LogoChanged(cand) THEN MSG_LOGO
    ELSE IF TimestampInFuture(cand.timestamp, nowValue) THEN MSG_FUTURE
    ELSE IF prev # Null /\ TimestampOlder(cand.timestamp, prev.timestamp) THEN MSG_OLDER
    ELSE IF prev # Null /\ VersionNotIncremented(cand.version, prev.version) THEN MSG_VERSION
    ELSE IF DuplicateAddress(cand.tokens) THEN MSG_DUP_ADDRESS
    ELSE IF DuplicateName(cand.tokens) THEN MSG_DUP_NAME
    ELSE IF DuplicateSymbol(cand.tokens) THEN MSG_DUP_SYMBOL
    ELSE IF DuplicateLogoURI(cand.tokens) THEN MSG_DUP_LOGO
    ELSE IF prev # Null /\ ExistingTokenModified(cand.tokens, prev.tokens) THEN MSG_MODIFIED
    ELSE IF InvalidChainId(cand.tokens) THEN MSG_CHAIN
    ELSE SYNC_OK

----------------------------------------------------------------------------
(* Documents and tokens: the shapes of the TokenList and Token interfaces  *)

Token(chainId, address, name, symbol, decimals, logoURI) ==
    [chainId |-> chainId, address |-> address, name |-> name,
     symbol |-> symbol, decimals |-> decimals, logoURI |-> logoURI]

Version(major, minor, patch) == [major |-> major, minor |-> minor, patch |-> patch]

TokenListDoc(schemaValid, name, keywords, logoURI, timestamp, version, tokens) ==
    [schemaValid |-> schemaValid, name |-> name, keywords |-> keywords,
     logoURI |-> logoURI, timestamp |-> timestamp, version |-> version,
     tokens |-> tokens]

(* Input values.  Each lower-cased field has a value, its upper-case       *)
(* variant and an unrelated value; the codes spell the quoted strings.     *)
Addresses == { <<48, 120, 97>>,       \* "0xa"
               <<48, 120, 65>>,       \* "0xA"
               <<48, 120, 98>> }      \* "0xb"
Names ==     { <<103, 111, 108, 100>>, \* "gold"
               <<71, 111, 108, 100>>,  \* "Gold"
               <<105, 114, 111, 110>> } \* "iron"
Symbols ==   { <<97, 117>>,           \* "au"
               <<65, 85>>,            \* "AU"
               <<102, 101>> }         \* "fe"
LogoURIs ==  { "https://cdn.test/au.png", "https://cdn.test/AU.png" }
Decimals ==  { 18, 6 }
ChainIds ==  { ChainApertum, ChainSecond, 1 }

AllTokens ==
    { Token(c, a, n, s, d, l) :
        c \in ChainIds, a \in Addresses, n \in Names, s \in Symbols,
        d \in Decimals, l \in LogoURIs }

(* Three fixed tokens: a listed one, an unrelated one, one on a chain that *)
(* is not allowed.                                                         *)
TokenGold ==
    Token(ChainApertum, <<48, 120, 97>>, <<103, 111, 108, 100>>, <<97, 117>>, 18,
          "https://cdn.test/au.png")
TokenIron ==
    Token(ChainSecond, <<48, 120, 98>>, <<105, 114, 111, 110>>, <<102, 101>>, 6,
          "https://cdn.test/AU.png")
TokenForeign ==
    Token(1, <<48, 120, 98>>, <<105, 114, 111, 110>>, <<102, 101>>, 6,
          "https://cdn.test/AU.png")

(* Token arrays of up to MaxTokens records in which at most one record is  *)
(* not `base`: every relation of a second record to `base` occurs, in both *)
(* orders.                                                                 *)
ArraysAround(base) ==
    UNION { { [k \in 1..n |-> IF k = p THEN t ELSE base] :
                p \in 1..n, t \in AllTokens } : n \in 1..MaxTokens }

TokenArrays == { <<>> } \cup ArraysAround(TokenGold) \cup ArraysAround(TokenForeign)

FewTokenArrays ==
    { <<>>, <<TokenGold>>, <<TokenGold, TokenIron>>, <<TokenGold, TokenGold>>,
      <<TokenForeign>>, <<TokenForeign, TokenForeign>> }

ListNames == { REQUIRED_LIST_NAME, "Another Token List" }
ListKeywords ==
    { REQUIRED_KEYWORDS,
      <<"trusted", "defi", "tokens", "apertum">>,
      <<"apertum", "tokens">> }
ListLogoURIs == { REQUIRED_LIST_LOGO_URI, "https://assets.apertum.io/assets/other.svg" }
Timestamps == 0..MaxTime
TwoVersions == { Version(1, 0, 0), Version(1, 0, 1) }
AllVersions == { Version(a, b, c) : a \in 0..MaxVer, b \in 0..MaxVer, c \in 0..MaxVer }

(* Candidates whose list-level fields vary, over a few token arrays *)
ListLevelDocs ==
    { TokenListDoc(sv, n, kw, l, ts, v, tk) :
        sv \in BOOLEAN, n \in ListNames, kw \in ListKeywords, l \in ListLogoURIs,
        ts \in Timestamps, v \in TwoVersions, tk \in FewTokenArrays }

(* Candidates with the required list-level fields over given versions and arrays *)
WellFormedDocs(versions, arrays) ==
    { TokenListDoc(TRUE, REQUIRED_LIST_NAME, REQUIRED_KEYWORDS, REQUIRED_LIST_LOGO_URI,
                   ts, v, tk) :
        ts \in Timestamps, v \in versions, tk \in arrays }

(* What `git show` can return for the base branch: nothing, or a document  *)
(* that passed the synchronous checks as a first version no later than t   *)
(* (README: pull requests are merged only when the validation passes).     *)
PreviousDocs(docs, t) ==
    { Null } \cup { d \in docs : SyncChecks(d, Null, t) = SYNC_OK }

(* How the host of a logoURI treats a HEAD request: it answers 200, it     *)
(* answers another 2xx status, the request fails (axios throws on a        *)
(* network error and on a status outside 2xx), or it never answers.        *)
HostBehaviours == { "200", "other2xx", "throws", "silent" }

----------------------------------------------------------------------------
(* The run *)

(* The state of a process that has loaded its two documents (lines 42-61)  *)
(* and has not yet called validateTokenList.                               *)
Loaded(cand, prev) ==
    /\ tokenList' = cand
    /\ previousTokenList' = prev
    /\ pc' = "loaded"
    /\ now' = -1
    /\ syncResult' = NONE
    /\ i' = 0
    /\ probes' = 0
    /\ inflight' = NONE
    /\ output' = NONE
    /\ exitCode' = -1

(* console.error(message); process.exit(1) *)
Exit(message) ==
    /\ pc' = "exited"
    /\ output' = message
    /\ exitCode' = 1
    /\ inflight' = NONE

(* line 212, after which the process ends with code 0 *)
Passed ==
    /\ pc' = "exited"
    /\ output' = MSG_PASSED
    /\ exitCode' = 0
    /\ inflight' = NONE

(* line 201: axios.head(token.logoURI) for token k; the host's behaviour   *)
(* is the environment's choice.  No timeout is configured.                 *)
IssueProbe(k) ==
    /\ pc' = "awaiting"
    /\ i' = k
    /\ probes' = probes + 1
    /\ \E b \in HostBehaviours : inflight' = b
    /\ UNCHANGED <<output, exitCode>>

(* lines 64-201: validateTokenList from its call to its first await *)
Validate ==
    /\ pc = "loaded"
    /\ now' = clock
    /\ syncResult' = SyncChecks(tokenList, previousTokenList, clock)
    /\ \/ /\ syncResult' # SYNC_OK
          /\ Exit(syncResult')
          /\ UNCHANGED <<i, probes>>
       \/ /\ syncResult' = SYNC_OK
          /\ Len(tokenList.tokens) = 0
          /\ Passed
          /\ UNCHANGED <<i, probes>>
       \/ /\ syncResult' = SYNC_OK
          /\ Len(tokenList.tokens) > 0
          /\ IssueProbe(1)
    /\ UNCHANGED <<tokenList, previousTokenList, clock, prior, history>>

(* lines 201-205 and the next iteration: the awaited request resolves with *)
(* status 200                                                              *)
ProbeOk ==
    /\ pc = "awaiting"
    /\ inflight = "200"
    /\ \/ /\ i < Len(tokenList.tokens)
          /\ IssueProbe(i + 1)
       \/ /\ i = Len(tokenList.tokens)
          /\ Passed
          /\ UNCHANGED <<i, probes>>
    /\ UNCHANGED <<tokenList, previousTokenList, clock, now, syncResult, prior, history>>

(* lines 202-205: the request resolves with a status other than 200 *)
ProbeOtherStatus ==
    /\ pc = "awaiting"
    /\ inflight = "other2xx"
    /\ Exit(MSG_LOGO_STATUS)
    /\ UNCHANGED <<tokenList, previousTokenList, clock, now, syncResult, i, probes,
                   prior, history>>

(* lines 206-209: the request rejects *)
ProbeThrows ==
    /\ pc = "awaiting"
    /\ inflight = "throws"
    /\ Exit(MSG_LOGO_FAILED)
    /\ UNCHANGED <<tokenList, previousTokenList, clock, now, syncResult, i, probes,
                   prior, history>>

(* Time passes *)
Tick ==
    /\ clock < MaxTime
    /\ clock' = clock + 1
    /\ UNCHANGED <<tokenList, previousTokenList, pc, now, syncResult, i, probes,
                   inflight, output, exitCode, prior, history>>

(* `npm run validate` once more on the same two documents *)
Rerun ==
    /\ pc = "exited"
    /\ prior' = [now |-> now, syncResult |-> syncResult]
    /\ Loaded(tokenList, previousTokenList)
    /\ UNCHANGED <<clock, history>>

(* README lines 108-111: a pull request whose validation passed is merged; *)
(* its document becomes the base of the next one.                          *)
Merge ==
    /\ pc = "exited"
    /\ exitCode = 0
    /\ pc' = "merged"
    /\ history' = Append(history, tokenList)
    /\ UNCHANGED <<tokenList, previousTokenList, clock, now, syncResult, i, probes,
                   inflight, output, exitCode, prior>>

(* lines 42-53 in a new pull request: the candidate is the submitted file, *)
(* the previous document is the head of the base branch.                   *)
Submit(docs) ==
    /\ pc \in {"exited", "merged"}
    /\ \E cand \in docs :
          Loaded(cand, IF history = <<>> THEN Null ELSE history[Len(history)])
    /\ prior' = Null
    /\ UNCHANGED <<clock, history>>

(* The start of one run over given inputs *)
InitOver(cands, prevs, clocks) ==
    /\ clock \in clocks
    /\ tokenList \in cands
    /\ previousTokenList \in PreviousDocs(prevs, clock)
    /\ pc = "loaded"
    /\ now = -1
    /\ syncResult = NONE
    /\ i = 0
    /\ probes = 0
    /\ inflight = NONE
    /\ output = NONE
    /\ exitCode = -1
    /\ prior = Null
    /\ history = <<>>

----------------------------------------------------------------------------
(* Spec: one run, over candidates that vary the list-level fields and      *)
(* candidates that vary the tokens.                                        *)

Candidates == ListLevelDocs \cup WellFormedDocs(TwoVersions, TokenArrays)

Bases ==
    WellFormedDocs({Version(1, 0, 0)}, {<<>>, <<TokenGold>>, <<TokenGold, TokenIron>>})

Init == InitOver(Candidates, Bases, 0..MaxTime)

Next == Validate \/ ProbeOk \/ ProbeOtherStatus \/ ProbeThrows

Spec == Init /\ [][Next]_vars

----------------------------------------------------------------------------
(* SpecVersion: one run over every pair of version triples *)

VersionDocs == WellFormedDocs(AllVersions, {<<>>, <<TokenGold>>})

InitVersion == InitOver(VersionDocs, VersionDocs, 0..MaxTime)

SpecVersion == InitVersion /\ [][Next]_vars

----------------------------------------------------------------------------
(* SpecRerun: the same two documents validated again and again while time  *)
(* passes                                                                  *)

InitRerun == InitOver(ListLevelDocs, Bases, 0..MaxTime)

NextRerun == Next \/ Tick \/ Rerun

SpecRerun == InitRerun /\ [][NextRerun]_vars

----------------------------------------------------------------------------
(* SpecHistory: a sequence of pull requests, each validated against the    *)
(* last merged document                                                    *)

TokenGoldRenamed == [TokenGold EXCEPT !.name = <<105, 114, 111, 110>>]

HistoryDocs ==
    WellFormedDocs({ Version(1, 0, p) : p \in 0..MaxVer },
                   { <<>>, <<TokenGold>>, <<TokenGoldRenamed>>, <<TokenGold, TokenIron>> })

InitHistory == InitOver(HistoryDocs, {}, {MaxTime})

NextHistory == Next \/ Merge \/ Submit(HistoryDocs)

SpecHistory == InitHistory /\ [][NextHistory]_vars

----------------------------------------------------------------------------
(* SpecLive: one run in which the script takes every step it can take.     *)
(* Node runs the synchronous part once the module is loaded and resumes    *)
(* the function whenever the awaited request settles; nothing obliges a    *)
(* host to answer.                                                         *)

LiveDocs == WellFormedDocs(TwoVersions, FewTokenArrays)

InitLive == InitOver(LiveDocs, Bases, 0..MaxTime)

SpecLive ==
    /\ InitLive
    /\ [][Next]_vars
    /\ WF_vars(Validate)
    /\ WF_vars(ProbeOk)
    /\ WF_vars(ProbeOtherStatus)
    /\ WF_vars(ProbeThrows)

----------------------------------------------------------------------------
(* Vocabulary of the properties, stated on the documents themselves *)

Ended == pc = "exited"
Accepted == pc = "exited" /\ exitCode = 0
HasPrevious == previousTokenList # Null

(* The identity key of a record: (chainId, lowercase(address)) *)
SameIdentity(t, u) ==
    t.chainId = u.chainId /\ toLowerCase(t.address) = toLowerCase(u.address)

SameMetadata(t, u) ==
    /\ t.name = u.name
    /\ t.symbol = u.symbol
    /\ t.decimals = u.decimals
    /\ t.logoURI = u.logoURI

(* The pairs of distinct records of the candidate *)
CandidatePairs ==
    { <<tokenList.tokens[p[1]], tokenList.tokens[p[2]]>> :
        p \in { q \in (DOMAIN tokenList.tokens) \X (DOMAIN tokenList.tokens) :
                   q[1] # q[2] } }

AddressConflict(t, u) == SameIdentity(t, u)
NameConflict(t, u) == t.chainId = u.chainId /\ toLowerCase(t.name) = toLowerCase(u.name)
SymbolConflict(t, u) ==
    t.chainId = u.chainId /\ toLowerCase(t.symbol) = toLowerCase(u.symbol)
LogoConflict(t, u) == t.chainId = u.chainId /\ t.logoURI = u.logoURI
AnyConflict(t, u) ==
    AddressConflict(t, u) \/ NameConflict(t, u) \/ SymbolConflict(t, u) \/ LogoConflict(t, u)

(* Some two records of the candidate conflict *)
SomeAddressConflict == \E q \in CandidatePairs : AddressConflict(q[1], q[2])
SomeNameConflict == \E q \in CandidatePairs : NameConflict(q[1], q[2])
SomeSymbolConflict == \E q \in CandidatePairs : SymbolConflict(q[1], q[2])
SomeLogoConflict == \E q \in CandidatePairs : LogoConflict(q[1], q[2])
SomeAnyConflict == \E q \in CandidatePairs : AnyConflict(q[1], q[2])

(* Some candidate record has the identity of a previous record and other metadata *)
SomeRecordModified ==
    \E a \in DOMAIN tokenList.tokens : \E b \in DOMAIN previousTokenList.tokens :
        /\ SameIdentity(tokenList.tokens[a], previousTokenList.tokens[b])
        /\ ~SameMetadata(tokenList.tokens[a], previousTokenList.tokens[b])

(* Results of a run that got past the cross-version immutability step *)
PastImmutability == { MSG_CHAIN, SYNC_OK }

----------------------------------------------------------------------------
(* C2: with a previous document and all earlier steps passed, the          *)
(* cross-version immutability step fails exactly when some candidate       *)
(* record has the identity key of a previous record and differs from it in *)
(* name, symbol, decimals or logoURI; absent and new keys never fail it.   *)
C2_ImmutabilityExact ==
    (HasPrevious /\ pc # "loaded") =>
        /\ (syncResult = MSG_MODIFIED => SomeRecordModified)
        /\ (syncResult \in PastImmutability => ~SomeRecordModified)

(* A run rejected because a record kept its key and changed only the case  *)
(* of its name.                                                            *)
C2_Witness ==
    /\ Ended /\ HasPrevious /\ output = MSG_MODIFIED
    /\ Len(tokenList.tokens) = 1
    /\ previousTokenList.tokens = <<TokenGold>>
    /\ tokenList.tokens[1] = [TokenGold EXCEPT !.name = <<71, 111, 108, 100>>]

(* C4: a candidate timestamp after `now` never ends in success, with or    *)
(* without a previous document; a candidate timestamp before the previous  *)
(* one never ends in success; equal timestamps (not after `now`) raise no  *)
(* timestamp failure.                                                      *)
C4_TimestampRule ==
    /\ Accepted => tokenList.timestamp <= now
    /\ (Accepted /\ HasPrevious) => tokenList.timestamp >= previousTokenList.timestamp
    /\ (pc # "loaded" /\ HasPrevious
        /\ tokenList.timestamp = previousTokenList.timestamp
        /\ tokenList.timestamp <= now)
         => syncResult \notin {MSG_FUTURE, MSG_OLDER}

(* An accepted candidate that carries the timestamp of its predecessor *)
C4_Witness ==
    /\ Accepted /\ HasPrevious
    /\ tokenList.timestamp = previousTokenList.timestamp
    /\ tokenList.timestamp = now

C6_NoDuplicateAddressAcrossChains ==
    Accepted =>
        \A a, b \in DOMAIN tokenList.tokens :
            a # b => toLowerCase(tokenList.tokens[a].address)
                        # toLowerCase(tokenList.tokens[b].address)

(* The deterministic checks that apply to a first version, on the document *)
FirstVersionChecksPass ==
    /\ tokenList.schemaValid
    /\ tokenList.name = "Apertum Token List"
    /\ {"apertum", "tokens", "trusted"}
          \subseteq {tokenList.keywords[k] : k \in DOMAIN tokenList.keywords}
    /\ tokenList.logoURI = "https://assets.apertum.io/assets/apertum-logo.svg"
    /\ tokenList.timestamp <= now
    /\ ~SomeAnyConflict
    /\ \A k \in DOMAIN tokenList.tokens : tokenList.tokens[k].chainId \in {89898, 2786}

(* C7: with no previous document the version, record-immutability and      *)
(* timestamp-regression checks are no-ops: the run never fails for one of  *)
(* them, and its verdict is that of the schema, fixed-identity, future-    *)
(* timestamp, uniqueness, chain-ID and logo checks alone.                  *)
C7_NoPreviousNoOps ==
    (~HasPrevious /\ pc # "loaded") =>
        /\ syncResult \notin {MSG_OLDER, MSG_VERSION, MSG_MODIFIED}
        /\ output \notin {MSG_OLDER, MSG_VERSION, MSG_MODIFIED}
        /\ (syncResult = SYNC_OK <=> FirstVersionChecksPass)
        /\ (Accepted => FirstVersionChecksPass)
        /\ (Ended /\ FirstVersionChecksPass)
              => output \in {MSG_PASSED, MSG_LOGO_STATUS, MSG_LOGO_FAILED}

(* A first version 1.0.1 with two records, accepted at the very time of    *)
(* its timestamp.                                                          *)
C7_Witness ==
    /\ Accepted /\ ~HasPrevious
    /\ tokenList.version = Version(1, 0, 1)
    /\ Len(tokenList.tokens) = 2
    /\ tokenList.timestamp = now

(* The steps in the order the claim gives them, and whether each fails on  *)
(* the loaded documents.                                                   *)
StepOrder ==
    << MSG_SCHEMA, MSG_NAME, MSG_KEYWORDS, MSG_LOGO, MSG_FUTURE, MSG_OLDER, MSG_VERSION,
       MSG_DUP_ADDRESS, MSG_DUP_NAME, MSG_DUP_SYMBOL, MSG_DUP_LOGO, MSG_MODIFIED,
       MSG_CHAIN >>

StepFails(k) ==
    CASE k = 1 -> SchemaInvalid(tokenList)
      [] k = 2 -> NameChanged(tokenList)
      [] k = 3 -> KeywordsChanged(tokenList)
      [] k = 4 -> LogoChanged(tokenList)
      [] k = 5 -> TimestampInFuture(tokenList.timestamp, now)
      [] k = 6 -> HasPrevious
                  /\ TimestampOlder(tokenList.timestamp, previousTokenList.timestamp)
      [] k = 7 -> HasPrevious
                  /\ VersionNotIncremented(tokenList.version, previousTokenList.version)
      [] k = 8 -> DuplicateAddress(tokenList.tokens)
      [] k = 9 -> DuplicateName(tokenList.tokens)
      [] k = 10 -> DuplicateSymbol(tokenList.tokens)
      [] k = 11 -> DuplicateLogoURI(tokenList.tokens)
      [] k = 12 -> HasPrevious
                   /\ ExistingTokenModified(tokenList.tokens, previousTokenList.tokens)
      [] k = 13 -> InvalidChainId(tokenList.tokens)

(* C9: the run is fail-fast in the order schema, name, keywords, list      *)
(* logo, timestamp, version, uniqueness (address, name, symbol, logoURI),  *)
(* immutability, chain IDs, logo probes: it reports the first failing      *)
(* step, issues no probe when a deterministic step fails, probes one       *)
(* record at a time, and issues no probe after a failed one.               *)
C9_FailFast ==
    pc # "loaded" =>
        /\ syncResult # SYNC_OK =>
              /\ \E k \in DOMAIN StepOrder :
                    /\ StepOrder[k] = syncResult
                    /\ StepFails(k)
                    /\ \A j \in 1..(k - 1) : ~StepFails(j)
              /\ Ended /\ output = syncResult /\ exitCode = 1
              /\ probes = 0
        /\ syncResult = SYNC_OK => \A k \in DOMAIN StepOrder : ~StepFails(k)
        /\ probes > 0 => syncResult = SYNC_OK
        /\ probes = i /\ probes <= Len(tokenList.tokens)
        /\ pc = "awaiting" => probes >= 1
        /\ output \in {MSG_LOGO_STATUS, MSG_LOGO_FAILED} => Ended /\ exitCode = 1
        /\ output = MSG_PASSED => probes = Len(tokenList.tokens)

(* A run that reports a duplicate symbol although a logoURI is duplicated  *)
(* and a chain ID is not allowed too, and that issued no probe.            *)
C9_Witness ==
    /\ Ended /\ output = MSG_DUP_SYMBOL /\ exitCode = 1 /\ probes = 0
    /\ DuplicateLogoURI(tokenList.tokens)
    /\ InvalidChainId(tokenList.tokens)

(* The triple (major, minor, patch) as one number, components below MaxVer + 1 *)
LexWeight(v) == (v.major * (MaxVer + 1) + v.minor) * (MaxVer + 1) + v.patch

(* Results of a run that got past the version step *)
PastVersion ==
    { MSG_DUP_ADDRESS, MSG_DUP_NAME, MSG_DUP_SYMBOL, MSG_DUP_LOGO, MSG_MODIFIED,
      MSG_CHAIN, SYNC_OK }

(* C3: with a previous document the version check passes if and only if    *)
(* the candidate triple is strictly greater than the previous one in       *)
(* lexicographic order.                                                    *)
C3_VersionStrictlyGreater ==
    HasPrevious =>
        /\ VersionNotIncremented(tokenList.version, previousTokenList.version)
              <=> ~(LexWeight(tokenList.version) > LexWeight(previousTokenList.version))
        /\ (pc # "loaded" /\ syncResult = MSG_VERSION)
              => LexWeight(tokenList.version) <= LexWeight(previousTokenList.version)
        /\ (pc # "loaded" /\ syncResult \in PastVersion)
              => LexWeight(tokenList.version) > LexWeight(previousTokenList.version)

(* 1.0.2 -> 1.1.0 passes: the minor grew and the patch fell *)
C3_Witness ==
    /\ Accepted /\ HasPrevious
    /\ previousTokenList.version = Version(1, 0, 2)
    /\ tokenList.version = Version(1, 1, 0)

(* C8 as stated: two runs on the same candidate and previous document give *)
(* the same verdict of steps 1-7, whenever they happen.                    *)
C8_SameVerdictWhenever ==
    (prior # Null /\ pc # "loaded") => syncResult = prior.syncResult

(* C8 as amended: two runs on the same candidate and previous document     *)
(* give the same verdict of steps 1-7 when they read the same `now`; their *)
(* verdicts differ only when the candidate timestamp is after `now` in     *)
(* exactly one of them, and that run reports the future timestamp.         *)
C8_SameVerdictAtSameTime ==
    (prior # Null /\ pc # "loaded") =>
        /\ prior.now = now => syncResult = prior.syncResult
        /\ syncResult # prior.syncResult =>
              \/ /\ prior.syncResult = MSG_FUTURE
                 /\ prior.now < tokenList.timestamp
                 /\ tokenList.timestamp <= now
              \/ /\ syncResult = MSG_FUTURE
                 /\ now < tokenList.timestamp
                 /\ tokenList.timestamp <= prior.now

(* A second run, later than the first, that passes steps 1-7 as the first did *)
C8_Witness ==
    /\ prior # Null /\ Ended
    /\ prior.now < now
    /\ prior.syncResult = SYNC_OK
    /\ syncResult = SYNC_OK
    /\ HasPrevious

(* C1: once an identity key has appeared in a merged document, every later *)
(* merged document that contains the key carries the same name, symbol,    *)
(* decimals and logoURI for it.                                            *)
C1_KeyNeverReused ==
    \A a, b \in DOMAIN history :
        a < b =>
            \A x \in DOMAIN history[a].tokens : \A y \in DOMAIN history[b].tokens :
                SameIdentity(history[a].tokens[x], history[b].tokens[y])
                    => SameMetadata(history[a].tokens[x], history[b].tokens[y])

(* C10: every run eventually produces a verdict, whatever the hosts do *)
C10_EventuallyVerdict == <>(pc = "exited")

====
